---- MODULE Spec2Model ----
(***************************************************************************)
(* The glyph-rain ("matrix") effect of the toll-bill-bot front end:        *)
(* initializeMatrixEffect, resizeCanvas, drawTargetToMap, diffuseFreeze,   *)
(* draw and the submit / resize listeners, and the export confirmation     *)
(* dialog of the same script.  Arrays keep the 0-based                     *)
(* indices of the source: drops is a function on 0..columns-1, freezeMap a *)
(* function on 0..rows-1 of functions on 0..columns-1.  A text is a        *)
(* sequence of one-character strings.  Every Math.random() draw and every  *)
(* DOM answer is an input of the action that consumes it.                  *)
(***************************************************************************)
EXTENDS Integers, Sequences, FiniteSets, TLC

VARIABLES
    dom,            \* which DOM nodes / contexts the page offers
    rect,           \* matrixRoot.getBoundingClientRect(), in half pixels
    inputValue,     \* input.value (what is typed in the field right now)
    pc,             \* "load" | "declined" | "running"
    canvasWidth, canvasHeight,
    columns, rows, drops, freezeMap,
    rafPending,     \* frame callbacks waiting in requestAnimationFrame
    submitListener, resizeListener,
    lastOp,         \* last handler / event that ran
    target,         \* the target array built by the last successful drawTargetToMap
    rasterOk,       \* did the last drawTargetToMap obtain its off-screen context
    rasterText,     \* the argument of the last drawTargetToMap call
    rasterLines,    \* the lines the last successful drawTargetToMap passed to fillText
    submittedText,  \* the text of the last form submit (<<>> when none yet)
    prevDrops,      \* drops as the last draw() found it
    prevCell,       \* per column, the cell state the last draw() read at the cursor
    erasedLocks,    \* did the grid the last re-target replaced hold a locked cell
    statusCalls,    \* showStatus calls made by the last handler
    earlyDraw,      \* columns whose early-reset draw (random > 0.975) fired in the last draw()
    frames, events, \* counters that bound the exploration
    exportDom,      \* which of #confirmDialog, #confirmCancel, #confirmOk the page offers
    pendingLink,    \* the script's pendingLink: null or the export link clicked
    dialogOpen,     \* is the confirm dialog shown
    navigations,    \* the hrefs the window was sent to, in order
    armed,          \* the export link clicked with no cancel or confirm click since (else null)
    navsSinceClick, \* navigations since the last click on an export link
    clicks          \* counter that bounds the exploration of the dialog

vars == <<dom, rect, inputValue, pc, canvasWidth, canvasHeight, columns, rows,
          drops, freezeMap, rafPending, submitListener, resizeListener, lastOp,
          target, rasterOk, rasterText, rasterLines, submittedText, prevDrops,
          prevCell, erasedLocks, statusCalls, earlyDraw, frames, events,
          exportDom, pendingLink, dialogOpen, navigations, armed, navsSinceClick,
          clicks>>

\* the state of the export dialog, which the glyph-rain handlers never touch
exportVars == <<exportDom, pendingLink, dialogOpen, navigations, armed,
                navsSinceClick, clicks>>

\* the state of the glyph rain, which the dialog handlers never touch
matrixVars == <<dom, rect, inputValue, pc, canvasWidth, canvasHeight, columns, rows,
                drops, freezeMap, rafPending, submitListener, resizeListener,
                target, rasterOk, rasterText, rasterLines, submittedText, prevDrops,
                prevCell, erasedLocks, earlyDraw, frames, events>>

(***************************************************************************)
(* Program constants                                                       *)
(***************************************************************************)
fontSize == 14
MinWidth == 240
MinHeight == 280
MaxLines == 6
MinTextSize == 6
AlphaThreshold == 30
Opaque == 255

(***************************************************************************)
(* Bounds of the exploration                                               *)
(***************************************************************************)
MaxFrames == 2      \* draw() calls explored after the one initialization makes
MaxEvents == 1      \* typing / submit / resize events explored
GridSpan == 32      \* container sizes tried by SpecGrid, in half pixels from just below the floor
MaxChars == 3       \* length of the free part of the texts tried by SpecLines
MaxClicks == 4      \* clicks and key presses explored by SpecExport

Space == " "
NL == "\n"
DefaultPhrase == <<"T", "O", "L", "L", " ", "B", "O", "T">>

Max(a, b) == IF a >= b THEN a ELSE b
Min(a, b) == IF a <= b THEN a ELSE b

(***************************************************************************)
(* Strings                                                                 *)
(***************************************************************************)
IsWhite(ch) == ch \in {Space, NL}

RECURSIVE trimStart(_)
trimStart(s) ==
    IF s = <<>> THEN <<>>
    ELSE IF IsWhite(Head(s)) THEN trimStart(Tail(s)) ELSE s

RECURSIVE trimEnd(_)
trimEnd(s) ==
    IF s = <<>> THEN <<>>
    ELSE IF IsWhite(s[Len(s)]) THEN trimEnd(SubSeq(s, 1, Len(s) - 1)) ELSE s

\* as trim, but leading white space is kept
trim_endOnly(s) == trimEnd(s)

trim(s) == trimEnd(trimStart(s))

\* String.prototype.split('\n'): always at least one piece, pieces may be empty
RECURSIVE split(_)
split(s) ==
    IF \A i \in 1..Len(s) : s[i] # NL THEN <<s>>
    ELSE LET k == CHOOSE i \in 1..Len(s) :
                      s[i] = NL /\ \A j \in 1..(i - 1) : s[j] # NL
         IN  <<SubSeq(s, 1, k - 1)>> \o split(SubSeq(s, k + 1, Len(s)))

RECURSIVE mapTrimEnd(_)
mapTrimEnd(ls) ==
    IF ls = <<>> THEN <<>> ELSE <<trimEnd(Head(ls))>> \o mapTrimEnd(Tail(ls))

RECURSIVE filterNonEmpty(_)
filterNonEmpty(ls) ==
    IF ls = <<>> THEN <<>>
    ELSE IF Len(Head(ls)) > 0 THEN <<Head(ls)>> \o filterNonEmpty(Tail(ls))
         ELSE filterNonEmpty(Tail(ls))

slice(ls, n) == SubSeq(ls, 1, Min(n, Len(ls)))

lineList(text) == slice(filterNonEmpty(mapTrimEnd(split(trim(text)))), MaxLines)

linesOf(text) ==
    LET ll == lineList(text) IN IF Len(ll) > 0 THEN ll ELSE <<DefaultPhrase>>

\* input.value || 'TOLL BOT'
orDefault(v) == IF v = <<>> THEN DefaultPhrase ELSE v

(***************************************************************************)
(* Grid model: resizeCanvas                                                *)
(***************************************************************************)
\* Math.floor of a length given in half pixels
floorPx(half) == half \div 2

\* Math.ceil(a / b) for positive integers
ceilDiv(a, b) == (a + b - 1) \div b

zeroGrid(rws, cols) == [y \in 0..(rws - 1) |-> [x \in 0..(cols - 1) |-> 0]]

\* canvas.width / canvas.height and the grid size derived from them
\* as surfaceWidth, without the floor of 240
surfaceWidth_noFloor(rc) == floorPx(rc.width)

surfaceWidth(rc) == Max(floorPx(rc.width), MinWidth)
surfaceHeight(rc) == Max(floorPx(rc.height), MinHeight)
\* as gridColumns, with Math.floor in place of Math.ceil
gridColumns_floor(rc) == surfaceWidth(rc) \div fontSize

gridColumns(rc) == ceilDiv(surfaceWidth(rc), fontSize)
gridRows(rc) == ceilDiv(surfaceHeight(rc), fontSize)

\* as resizeCanvas, with the cursor bank allocated by rows
resizeCanvas_rowsDrops(rc, start) ==
    [canvasWidth  |-> surfaceWidth(rc),
     canvasHeight |-> surfaceHeight(rc),
     columns      |-> gridColumns(rc),
     rows         |-> gridRows(rc),
     drops        |-> [c \in 0..(gridRows(rc) - 1) |-> start[0]],
     freezeMap    |-> zeroGrid(gridRows(rc), gridColumns(rc))]

\* start[c] is the value of Math.floor(Math.random() * rows) drawn for column c
resizeCanvas(rc, start) ==
    [canvasWidth  |-> surfaceWidth(rc),
     canvasHeight |-> surfaceHeight(rc),
     columns      |-> gridColumns(rc),
     rows         |-> gridRows(rc),
     drops        |-> [c \in 0..(gridColumns(rc) - 1) |-> start[c]],
     freezeMap    |-> zeroGrid(gridRows(rc), gridColumns(rc))]

(***************************************************************************)
(* Target rasterizer: drawTargetToMap                                      *)
(***************************************************************************)
RECURSIVE maxLineLen(_)
maxLineLen(ls) == IF ls = <<>> THEN 1 ELSE Max(Len(Head(ls)), maxLineLen(Tail(ls)))

\* Math.max(6, Math.floor(Math.min(columns / (maxLen * 0.62), rows / (lines.length * 1.2))))
textSizeOf(ls, cols, rws) ==
    Max(MinTextSize, Min((100 * cols) \div (62 * maxLineLen(ls)),
                         (10 * rws) \div (12 * Len(ls))))

\* startY + index * lineHeight, in tenths of a pixel (index is 0-based)
lineY10(n, ts, rws, index) == 5 * rws - 6 * (n - 1) * ts + 12 * index * ts

\* The canvas's fillText: the pixels the white glyphs of line number index
\* touch, a box centred on columns / 2, textSize high and 0.6 * textSize wide
\* per character (lengths in tenths of a pixel before rounding outwards)
RECURSIVE textBoxes(_, _, _, _, _, _)
textBoxes(ls, n, ts, cols, rws, index) ==
    IF ls = <<>> THEN <<>>
    ELSE <<[ys |-> ((lineY10(n, ts, rws, index) - 5 * ts) \div 10)
                   ..(ceilDiv(lineY10(n, ts, rws, index) + 5 * ts, 10) - 1),
            xs |-> ((5 * cols - 3 * Len(Head(ls)) * ts) \div 10)
                   ..(ceilDiv(5 * cols + 3 * Len(Head(ls)) * ts, 10) - 1)]>>
         \o textBoxes(Tail(ls), n, ts, cols, rws, index + 1)

\* alpha with which the glyph boxes cover pixel (y, x)
textCoverage(boxes, y, x) ==
    IF \E i \in 1..Len(boxes) : y \in boxes[i].ys /\ x \in boxes[i].xs
    THEN Opaque ELSE 0

\* source-over compositing of the alpha channel
sourceOver(src, dst) == src + (dst * (Opaque - src)) \div Opaque

\* alpha of pixel (y, x) in getImageData: a new canvas is transparent,
\* fillRect('#000') covers all of it, fillText('#fff') is composited on top
pixelAlpha(boxes, y, x) == sourceOver(textCoverage(boxes, y, x), sourceOver(Opaque, 0))

\* target[y][x] = alpha > 30 ? 1 : 0
targetCell(alpha) == IF alpha > AlphaThreshold THEN 1 ELSE 0

\* the target array; the pixels of a row no glyph box touches all have the
\* alpha of a pixel that no text covers
targetOf(ls, cols, rws) ==
    LET boxes == textBoxes(ls, Len(ls), textSizeOf(ls, cols, rws), cols, rws, 0)
        plain == targetCell(pixelAlpha(<<>>, 0, 0))
    IN  [y \in 0..(rws - 1) |->
           IF \E i \in 1..Len(boxes) : y \in boxes[i].ys
           THEN [x \in 0..(cols - 1) |-> targetCell(pixelAlpha(boxes, y, x))]
           ELSE [x \in 0..(cols - 1) |-> plain]]

\* as drawTargetToMap, but cells that were locked stay locked
drawTargetToMap_keepLocks(text, cols, rws, fm, ctxOk) ==
    IF ~ctxOk
    THEN [ok |-> FALSE, freezeMap |-> fm, target |-> <<>>, lines |-> <<>>]
    ELSE LET ls == linesOf(text)
             tg == targetOf(ls, cols, rws)
         IN  [ok |-> TRUE,
              freezeMap |-> [y \in DOMAIN tg |-> [x \in DOMAIN tg[y] |->
                               IF y \in DOMAIN fm /\ x \in DOMAIN fm[y] /\ fm[y][x] = 2
                               THEN 2 ELSE tg[y][x]]],
              target |-> tg, lines |-> ls]

\* ctxOk: did local.getContext('2d') return a context
drawTargetToMap(text, cols, rws, fm, ctxOk) ==
    IF ~ctxOk
    THEN [ok |-> FALSE, freezeMap |-> fm, target |-> <<>>, lines |-> <<>>]
    ELSE LET ls == linesOf(text)
             tg == targetOf(ls, cols, rws)
         IN  [ok |-> TRUE, freezeMap |-> tg, target |-> tg, lines |-> ls]

(***************************************************************************)
(* Freeze diffusion and frame renderer                                     *)
(***************************************************************************)
\* as diffuseCell, but an idle cell whose draw fires becomes a target cell
diffuseCell_wake(v, fired) ==
    IF v = 0 THEN (IF fired THEN 1 ELSE 0)
    ELSE IF v = 1 THEN (IF fired THEN 2 ELSE 1)
    ELSE IF v = 2 /\ fired THEN 1
    ELSE v

\* as diffuseCell, but a locked cell whose draw fires becomes idle
diffuseCell_drop(v, fired) ==
    IF v = 1 THEN (IF fired THEN 2 ELSE 1)
    ELSE IF v = 2 /\ fired THEN 0
    ELSE v

\* as diffuseCell, but no lock draw ever takes effect
diffuseCell_noLock(v, fired) ==
    IF v = 2 /\ fired THEN 1 ELSE v

\* one cell of diffuseFreeze; fired: the cell's Math.random() draw was below
\* its threshold (freezeSpeed for a 1, 0.001 for a 2)
diffuseCell(v, fired) ==
    IF v = 1 THEN (IF fired THEN 2 ELSE 1)
    ELSE IF v = 2 /\ fired THEN 1
    ELSE v

diffuseFreeze(rws, cols, fm, fires) ==
    [y \in DOMAIN fm |-> [x \in DOMAIN fm[y] |->
        IF y < rws /\ x < cols THEN diffuseCell(fm[y][x], <<y, x>> \in fires)
        ELSE fm[y][x]]]

\* as cellState, but a lookup outside the grid reads as locked
cellState_lockedOutside(fm, row, column) ==
    IF row \in DOMAIN fm /\ column \in DOMAIN fm[row] THEN fm[row][column] ELSE 2

\* freezeMap[row]?.[column] ?? 0
cellState(fm, row, column) ==
    IF row \in DOMAIN fm /\ column \in DOMAIN fm[row] THEN fm[row][column] ELSE 0

\* as advance, but the cursor moves on a locked cell too
advance_noHold(row, state, rws, early) ==
    IF row > rws \/ early THEN 0 ELSE row + 1

\* as advance, with row >= rows as the wrap test
advance_atRows(row, state, rws, early) ==
    IF state = 2 THEN row
    ELSE IF row >= rws \/ early THEN 0 ELSE row + 1

\* as advance, without the wrap at the bottom
advance_noWrap(row, state, rws, early) ==
    IF state = 2 THEN row
    ELSE IF early THEN 0 ELSE row + 1

\* the cursor of one column after draw(); early: Math.random() > 0.975
advance(row, state, rws, early) ==
    IF state = 2 THEN row
    ELSE IF row > rws \/ early THEN 0 ELSE row + 1

\* as draw, with diffuseFreeze() run before the cursors are served
draw_diffuseFirst(cols, rws, drp, fm, early, fires) ==
    LET df == diffuseFreeze(rws, cols, fm, fires)
    IN  [cells     |-> [c \in DOMAIN drp |-> cellState(df, drp[c], c)],
         drops     |-> [c \in DOMAIN drp |->
                          IF c < cols
                          THEN advance(drp[c], cellState(df, drp[c], c), rws, c \in early)
                          ELSE drp[c]],
         freezeMap |-> df,
         early     |-> {c \in early : c \in DOMAIN drp /\ c < cols
                                      /\ cellState(df, drp[c], c) # 2 /\ drp[c] <= rws}]

\* early: the columns whose early-reset draw would fire; fires: the cells
\* whose transition draw fires
draw(cols, rws, drp, fm, early, fires) ==
    [cells     |-> [c \in DOMAIN drp |-> cellState(fm, drp[c], c)],
     drops     |-> [c \in DOMAIN drp |->
                      IF c < cols
                      THEN advance(drp[c], cellState(fm, drp[c], c), rws, c \in early)
                      ELSE drp[c]],
     freezeMap |-> diffuseFreeze(rws, cols, fm, fires),
     early     |-> {c \in early : c \in DOMAIN drp /\ c < cols
                                  /\ cellState(fm, drp[c], c) # 2 /\ drp[c] <= rws}]

\* as requestAnimationFrame, but the callback is not queued
requestAnimationFrame_drop(pending) == pending

\* window.requestAnimationFrame(draw): one more callback waits for the next frame
requestAnimationFrame(pending) == pending + 1

(***************************************************************************)
(* Inputs                                                                  *)
(***************************************************************************)
BOOL == {TRUE, FALSE}

AllPresent == [matrixRoot |-> TRUE, canvas |-> TRUE, form |-> TRUE, input |-> TRUE, ctx |-> TRUE]

\* the page offers everything, or lacks one element, or the canvas gives no
\* 2D context (a missing canvas gives none either)
DomChoices ==
    {AllPresent,
     [AllPresent EXCEPT !.matrixRoot = FALSE],
     [AllPresent EXCEPT !.canvas = FALSE, !.ctx = FALSE],
     [AllPresent EXCEPT !.form = FALSE],
     [AllPresent EXCEPT !.input = FALSE],
     [AllPresent EXCEPT !.ctx = FALSE]}

\* container sizes in half pixels: an empty container, and a size above the
\* floor that is neither a whole number of pixels nor a multiple of fontSize
Rects ==
    {[width |-> 0, height |-> 0],
     [width |-> 2 * (MinWidth + fontSize) + 3, height |-> 2 * (MinHeight + fontSize) + 3]}

\* contents of the input field: empty, a word
Texts == {<<>>, <<"A">>}

\* values of Math.floor(Math.random() * rows) tried for the cursors: the
\* least and the greatest
StartRows(rws) == {0, rws - 1}

\* all columns of one resize draw the same start row
StartVectors(cols, rws) ==
    {[c \in 0..(cols - 1) |-> s] : s \in StartRows(rws)}

\* the column whose early-reset draw may fire, the cell whose transition draw
\* may fire; the draws of all other columns and cells stay above their thresholds
HotColumns == {0}
HotCells == {<<1, 0>>}

\* pendingLink = null
null == "null"

\* the elements matched by .export-link
Links == {"link1", "link2"}

FullDialog ==
    [dialog |-> TRUE, cancelButton |-> TRUE, confirmButton |-> TRUE, statusToast |-> TRUE]

\* the page offers the dialog with both buttons and the status toast, lacks
\* one button or the toast, or has no dialog at all
ExportDoms ==
    {FullDialog,
     [FullDialog EXCEPT !.cancelButton = FALSE],
     [FullDialog EXCEPT !.confirmButton = FALSE],
     [FullDialog EXCEPT !.statusToast = FALSE],
     [FullDialog EXCEPT !.dialog = FALSE, !.cancelButton = FALSE, !.confirmButton = FALSE]}

\* as canStart, without the test of the 2D context
canStart_noCtx(d) == d.matrixRoot /\ d.canvas /\ d.form /\ d.input

canStart(d) == d.matrixRoot /\ d.canvas /\ d.form /\ d.input /\ d.ctx

hasLock(fm) == \E y \in DOMAIN fm : \E x \in DOMAIN fm[y] : fm[y][x] = 2

(***************************************************************************)
(* State machine                                                           *)
(***************************************************************************)
\* the page as loaded, before initializeMatrixEffect() runs
InitState(rects, texts) ==
    /\ dom \in DomChoices
    /\ rect \in rects
    /\ inputValue \in texts
    /\ pc = "load"
    /\ canvasWidth = 0 /\ canvasHeight = 0
    /\ columns = 0 /\ rows = 0
    /\ drops = <<>> /\ freezeMap = <<>>
    /\ rafPending = 0
    /\ submitListener = FALSE /\ resizeListener = FALSE
    /\ lastOp = "load"
    /\ target = <<>> /\ rasterOk = FALSE /\ rasterText = <<>> /\ rasterLines = <<>>
    /\ submittedText = <<>>
    /\ prevDrops = <<>> /\ prevCell = <<>>
    /\ erasedLocks = FALSE
    /\ statusCalls = 0
    /\ earlyDraw = {}
    /\ frames = 0 /\ events = 0

\* the dialog part of the script has run: pendingLink is null, the dialog
\* closed, the window has gone nowhere
ExportInit(doms) ==
    /\ exportDom \in doms
    /\ pendingLink = null
    /\ dialogOpen = FALSE
    /\ navigations = <<>>
    /\ armed = null
    /\ navsSinceClick = 0
    /\ clicks = 0

Init == InitState(Rects, Texts) /\ ExportInit({FullDialog})

\* initializeMatrixEffect(): guards, resizeCanvas, drawTargetToMap, the first
\* draw(), then the two listeners; the draws of the first draw() are taken
\* from earlySets and fireSets
initializeWith(earlySets, fireSets) ==
    /\ pc = "load"
    /\ lastOp' = "init"
    /\ statusCalls' = 0
    /\ erasedLocks' = FALSE
    /\ UNCHANGED <<dom, rect, inputValue, submittedText, frames, events>>
    /\ UNCHANGED exportVars
    /\ IF ~canStart(dom)
       THEN /\ pc' = "declined"
            /\ UNCHANGED <<canvasWidth, canvasHeight, columns, rows, drops, freezeMap,
                           rafPending, submitListener, resizeListener, target, rasterOk,
                           rasterText, rasterLines, prevDrops, prevCell, earlyDraw>>
       ELSE \E ctxOk \in BOOL, early \in earlySets, fires \in fireSets :
            \E start \in StartVectors(gridColumns(rect), gridRows(rect)) :
              LET r == resizeCanvas(rect, start)
                  t == drawTargetToMap(DefaultPhrase, r.columns, r.rows, r.freezeMap, ctxOk)
                  d == draw(r.columns, r.rows, r.drops, t.freezeMap, early, fires)
              IN  /\ pc' = "running"
                  /\ canvasWidth' = r.canvasWidth
                  /\ canvasHeight' = r.canvasHeight
                  /\ columns' = r.columns
                  /\ rows' = r.rows
                  /\ target' = t.target
                  /\ rasterOk' = t.ok
                  /\ rasterText' = DefaultPhrase
                  /\ rasterLines' = t.lines
                  /\ prevDrops' = r.drops
                  /\ prevCell' = d.cells
                  /\ drops' = d.drops
                  /\ freezeMap' = d.freezeMap
                  /\ earlyDraw' = d.early
                  /\ rafPending' = requestAnimationFrame(rafPending)
                  /\ submitListener' = TRUE
                  /\ resizeListener' = TRUE

initializeMatrixEffect == initializeWith(SUBSET HotColumns, SUBSET HotCells)

\* the browser runs the pending frame callback: draw()
Frame ==
    /\ pc = "running"
    /\ rafPending > 0
    /\ frames < MaxFrames
    /\ \E early \in SUBSET HotColumns, fires \in SUBSET HotCells :
         LET d == draw(columns, rows, drops, freezeMap, early, fires)
         IN  /\ prevDrops' = drops
             /\ prevCell' = d.cells
             /\ drops' = d.drops
             /\ freezeMap' = d.freezeMap
             /\ earlyDraw' = d.early
    /\ rafPending' = requestAnimationFrame(rafPending - 1)
    /\ frames' = frames + 1
    /\ lastOp' = "frame"
    /\ UNCHANGED exportVars
    /\ statusCalls' = 0
    /\ erasedLocks' = FALSE
    /\ UNCHANGED <<dom, rect, inputValue, pc, canvasWidth, canvasHeight, columns, rows,
                   submitListener, resizeListener, target, rasterOk, rasterText,
                   rasterLines, submittedText, events>>

\* the user edits the input field
Type ==
    /\ dom.input
    /\ events < MaxEvents
    /\ \E v \in Texts : v # inputValue /\ inputValue' = v
    /\ events' = events + 1
    /\ lastOp' = "type"
    /\ UNCHANGED exportVars
    /\ statusCalls' = 0
    /\ erasedLocks' = FALSE
    /\ UNCHANGED <<dom, rect, pc, canvasWidth, canvasHeight, columns, rows, drops,
                   freezeMap, rafPending, submitListener, resizeListener, target,
                   rasterOk, rasterText, rasterLines, submittedText, prevDrops,
                   prevCell, earlyDraw, frames>>

\* as Submit, but the listener also sends every cursor back to row 0
Submit_reseed ==
    /\ dom.form /\ dom.input
    /\ events < MaxEvents
    /\ events' = events + 1
    /\ lastOp' = "submit"
    /\ submittedText' = inputValue
    /\ UNCHANGED exportVars
    /\ UNCHANGED <<dom, rect, inputValue, pc, canvasWidth, canvasHeight, columns, rows,
                   rafPending, submitListener, resizeListener, prevDrops,
                   prevCell, earlyDraw, frames>>
    /\ IF submitListener
       THEN \E ctxOk \in BOOL :
              LET t == drawTargetToMap(orDefault(inputValue), columns, rows, freezeMap, ctxOk)
              IN  /\ freezeMap' = t.freezeMap
                  /\ drops' = [c \in DOMAIN drops |-> 0]
                  /\ target' = IF t.ok THEN t.target ELSE target
                  /\ rasterOk' = t.ok
                  /\ rasterText' = orDefault(inputValue)
                  /\ rasterLines' = IF t.ok THEN t.lines ELSE rasterLines
                  /\ erasedLocks' = (t.ok /\ hasLock(freezeMap))
                  /\ statusCalls' = 1
       ELSE /\ statusCalls' = 0
            /\ erasedLocks' = FALSE
            /\ UNCHANGED <<drops, freezeMap, target, rasterOk, rasterText, rasterLines>>

\* the form's submit event; the listener exists only once initialization passed
Submit ==
    /\ dom.form /\ dom.input
    /\ events < MaxEvents
    /\ events' = events + 1
    /\ lastOp' = "submit"
    /\ submittedText' = inputValue
    /\ UNCHANGED exportVars
    /\ UNCHANGED <<dom, rect, inputValue, pc, canvasWidth, canvasHeight, columns, rows,
                   drops, rafPending, submitListener, resizeListener, prevDrops,
                   prevCell, earlyDraw, frames>>
    /\ IF submitListener
       THEN \E ctxOk \in BOOL :
              LET t == drawTargetToMap(orDefault(inputValue), columns, rows, freezeMap, ctxOk)
              IN  /\ freezeMap' = t.freezeMap
                  /\ target' = IF t.ok THEN t.target ELSE target
                  /\ rasterOk' = t.ok
                  /\ rasterText' = orDefault(inputValue)
                  /\ rasterLines' = IF t.ok THEN t.lines ELSE rasterLines
                  /\ erasedLocks' = (t.ok /\ hasLock(freezeMap))
                  /\ statusCalls' = 1
       ELSE /\ statusCalls' = 0
            /\ erasedLocks' = FALSE
            /\ UNCHANGED <<freezeMap, target, rasterOk, rasterText, rasterLines>>

\* the window's resize event: the container takes a new size; the listener
\* runs resizeCanvas() and then drawTargetToMap() on the reallocated grid
Resize ==
    /\ events < MaxEvents
    /\ events' = events + 1
    /\ lastOp' = "resize"
    /\ statusCalls' = 0
    /\ UNCHANGED exportVars
    /\ \E rc \in Rects :
         /\ rect' = rc
         /\ IF resizeListener
            THEN \E ctxOk \in BOOL :
                   LET t == drawTargetToMap(orDefault(inputValue), gridColumns(rc),
                                            gridRows(rc),
                                            zeroGrid(gridRows(rc), gridColumns(rc)), ctxOk)
                   IN  \E start \in StartVectors(gridColumns(rc), gridRows(rc)) :
                         LET r == resizeCanvas(rc, start)
                         IN  /\ canvasWidth' = r.canvasWidth
                             /\ canvasHeight' = r.canvasHeight
                             /\ columns' = r.columns
                             /\ rows' = r.rows
                             /\ drops' = r.drops
                             /\ freezeMap' = IF t.ok THEN t.freezeMap ELSE r.freezeMap
                             /\ target' = IF t.ok THEN t.target ELSE target
                             /\ rasterOk' = t.ok
                             /\ rasterText' = orDefault(inputValue)
                             /\ rasterLines' = IF t.ok THEN t.lines ELSE rasterLines
                             /\ erasedLocks' = (t.ok /\ hasLock(freezeMap))
            ELSE /\ erasedLocks' = FALSE
                 /\ UNCHANGED <<canvasWidth, canvasHeight, columns, rows, drops, freezeMap,
                                target, rasterOk, rasterText, rasterLines>>
    /\ UNCHANGED <<dom, inputValue, pc, rafPending, submitListener, resizeListener,
                   submittedText, prevDrops, prevCell, earlyDraw, frames>>

Next == initializeMatrixEffect \/ Frame \/ Type \/ Submit \/ Resize

Spec == Init /\ [][Next]_vars

(***************************************************************************)
(* SpecGrid: initialization over a range of container sizes                *)
(***************************************************************************)
GridRects ==
    UNION {{[width |-> 2 * MinWidth - 4 + k, height |-> 2 * MinHeight - 4 + j] :
               j \in {k, GridSpan - k}} : k \in 0..GridSpan}

InitGrid == InitState(GridRects, {<<>>}) /\ ExportInit({FullDialog})

NextGrid == initializeMatrixEffect

SpecGrid == InitGrid /\ [][NextGrid]_vars

(***************************************************************************)
(* SpecLines: initialization and one submit over a range of texts          *)
(***************************************************************************)
LineChars == {"A", Space, NL}

ShortTexts == UNION {[1..n -> LineChars] : n \in 0..MaxChars}

\* seven more lines, one with leading and one with trailing white space, and
\* a blank line among them
LongTail ==
    <<NL, Space, "B", NL, "C", Space, NL, NL, "D", NL, "E", NL, "F", NL, "G", NL, "H">>

LineTexts == ShortTexts \cup {t \o LongTail : t \in ShortTexts}

InitLines == InitState({[width |-> 0, height |-> 0]}, LineTexts) /\ ExportInit({FullDialog})

NextLines == initializeMatrixEffect \/ Submit

SpecLines == InitLines /\ [][NextLines]_vars

(***************************************************************************)
(* SpecLive: the frame loop left running without a bound on the frames     *)
(***************************************************************************)
\* the cells whose next transition draw decides a lock, and an unlock
lockable(fm) == {<<y, x>> \in (DOMAIN fm) \X (0..(columns - 1)) : fm[y][x] = 1}
lockedCells(fm) == {<<y, x>> \in (DOMAIN fm) \X (0..(columns - 1)) : fm[y][x] = 2}

\* outcomes of the transition draws of one frame: none fires, every lock
\* draw fires, every unlock draw fires
LiveFires(fm) == {{}, lockable(fm), lockedCells(fm)}

\* draw() as a pending frame callback, its transition draws taken from fireSets;
\* no early-reset draw fires
FrameFires(fireSets) ==
    /\ pc = "running"
    /\ rafPending > 0
    /\ lastOp' = "frame"
    /\ rafPending' = requestAnimationFrame(rafPending - 1)
    /\ statusCalls' = 0
    /\ erasedLocks' = FALSE
    /\ prevDrops' = drops
    /\ UNCHANGED exportVars
    /\ UNCHANGED <<dom, rect, inputValue, pc, canvasWidth, canvasHeight, columns, rows,
                   submitListener, resizeListener, target, rasterOk, rasterText,
                   rasterLines, submittedText, frames, events>>
    /\ \E fires \in fireSets :
         LET d == draw(columns, rows, drops, freezeMap, {}, fires)
         IN  /\ prevCell' = d.cells
             /\ drops' = d.drops
             /\ earlyDraw' = d.early
             /\ freezeMap' = d.freezeMap

FrameLive == FrameFires(LiveFires(freezeMap))

\* a frame in which the lock draw of every target cell fires
LockFrame == FrameFires({lockable(freezeMap)})

InitLive == InitState({[width |-> 0, height |-> 0]}, {<<>>}) /\ ExportInit({FullDialog})

\* initialization whose first draw() sees no early-reset and no transition
\* draw fire
initializeQuiet == initializeWith({{}}, {{}})

NextLive == initializeQuiet \/ FrameLive \/ Submit \/ Resize

\* the browser keeps running the pending frame callback, and a lock draw that
\* is tried in every frame fires in some frame: again and again there is a
\* frame in which the pending lock draws fire
SpecLive == InitLive /\ [][NextLive]_vars /\ WF_vars(LockFrame)

(***************************************************************************)
(* Export confirmation dialog                                              *)
(***************************************************************************)
\* handleExportClick(event): without the dialog it returns before
\* preventDefault() and the click follows the link
handleExportClick(link, ed, pending, open) ==
    IF ~ed.dialog
    THEN [prevented |-> FALSE, pendingLink |-> pending, dialogOpen |-> open]
    ELSE [prevented |-> TRUE, pendingLink |-> link, dialogOpen |-> TRUE]

\* the click listener of #confirmCancel
cancelClick(pending) == [dialogOpen |-> FALSE, pendingLink |-> null]

\* as confirmClick, with a showStatus that does not test statusToast: on a
\* page without #statusToast it throws, and the listener ends there
confirmClick_unguarded(pending, toast) ==
    IF pending # null /\ ~toast
    THEN [dialogOpen  |-> FALSE,
          navigate    |-> <<>>,
          status      |-> 1,
          pendingLink |-> pending]
    ELSE [dialogOpen  |-> FALSE,
          navigate    |-> IF pending # null THEN <<pending>> ELSE <<>>,
          status      |-> IF pending # null THEN 1 ELSE 0,
          pendingLink |-> null]

\* the click listener of #confirmOk; navigate: the hrefs assigned to
\* window.location.href, status: its showStatus calls. showStatus returns at
\* once on a page without #statusToast (toast = FALSE), so the listener runs
\* to its end either way
confirmClick(pending, toast) ==
    [dialogOpen  |-> FALSE,
     navigate    |-> IF pending # null THEN <<pending>> ELSE <<>>,
     status      |-> IF pending # null THEN 1 ELSE 0,
     pendingLink |-> null]

\* a click on an export link
ExportClick ==
    /\ pc # "load"
    /\ clicks < MaxClicks
    /\ clicks' = clicks + 1
    /\ lastOp' = "export"
    /\ statusCalls' = 0
    /\ \E link \in Links :
         LET h == handleExportClick(link, exportDom, pendingLink, dialogOpen)
         IN  /\ pendingLink' = h.pendingLink
             /\ dialogOpen' = h.dialogOpen
             /\ navigations' = IF h.prevented THEN navigations
                               ELSE Append(navigations, link)
             /\ navsSinceClick' = IF h.prevented THEN 0 ELSE 1
             /\ armed' = link
    /\ UNCHANGED exportDom
    /\ UNCHANGED matrixVars

\* a click on #confirmCancel; its listener exists only when the dialog does
CancelClick ==
    /\ pc # "load"
    /\ exportDom.cancelButton
    /\ clicks < MaxClicks
    /\ clicks' = clicks + 1
    /\ lastOp' = "cancel"
    /\ statusCalls' = 0
    /\ armed' = null
    /\ IF exportDom.dialog
       THEN /\ pendingLink' = cancelClick(pendingLink).pendingLink
            /\ dialogOpen' = cancelClick(pendingLink).dialogOpen
       ELSE UNCHANGED <<pendingLink, dialogOpen>>
    /\ UNCHANGED <<exportDom, navigations, navsSinceClick>>
    /\ UNCHANGED matrixVars

\* a click on #confirmOk; its listener exists only when the dialog does
ConfirmClick ==
    /\ pc # "load"
    /\ exportDom.confirmButton
    /\ clicks < MaxClicks
    /\ clicks' = clicks + 1
    /\ lastOp' = "confirm"
    /\ armed' = null
    /\ IF exportDom.dialog
       THEN LET c == confirmClick(pendingLink, exportDom.statusToast)
            IN  /\ pendingLink' = c.pendingLink
                /\ dialogOpen' = c.dialogOpen
                /\ navigations' = navigations \o c.navigate
                /\ navsSinceClick' = navsSinceClick + Len(c.navigate)
                /\ statusCalls' = c.status
       ELSE /\ statusCalls' = 0
            /\ UNCHANGED <<pendingLink, dialogOpen, navigations, navsSinceClick>>
    /\ UNCHANGED exportDom
    /\ UNCHANGED matrixVars

\* the Escape key closes a dialog opened by showModal(); no listener of the
\* script runs
EscapeKey ==
    /\ pc # "load"
    /\ dialogOpen
    /\ clicks < MaxClicks
    /\ clicks' = clicks + 1
    /\ lastOp' = "escape"
    /\ statusCalls' = 0
    /\ dialogOpen' = FALSE
    /\ UNCHANGED <<exportDom, pendingLink, navigations, armed, navsSinceClick>>
    /\ UNCHANGED matrixVars

(***************************************************************************)
(* SpecExport: the script on a page with export links                      *)
(***************************************************************************)
InitExport == InitState({[width |-> 0, height |-> 0]}, {<<>>}) /\ ExportInit(ExportDoms)

NextExport ==
    initializeMatrixEffect \/ ExportClick \/ CancelClick \/ ConfirmClick \/ EscapeKey

SpecExport == InitExport /\ [][NextExport]_vars

(***************************************************************************)
(* Claims                                                                  *)
(***************************************************************************)
\* a draw() has just run: the one initialization makes, or a frame
FrameRan == pc = "running" /\ lastOp \in {"init", "frame"}

\* the value the last target array has at (y, x); 0 where it has no cell
targetAt(y, x) ==
    IF y \in DOMAIN target /\ x \in DOMAIN target[y] THEN target[y][x] ELSE 0

domIncomplete == ~dom.matrixRoot \/ ~dom.canvas \/ ~dom.form \/ ~dom.input \/ ~dom.ctx

\* C1 as stated: after every draw(), every column's cursor is 0 or one more
\* than before, whatever the state of the cell it was on.
C1_Original ==
    FrameRan =>
        \A c \in DOMAIN drops : drops[c] = 0 \/ drops[c] = prevDrops[c] + 1

\* C1 amended: after every draw(), the cursor of a column whose cell was idle,
\* target or outside the grid is 0 or one more than before; the cursor of a
\* column whose cell was locked (2) has not moved.
C1_Amended ==
    FrameRan =>
        \A c \in DOMAIN drops :
            IF prevCell[c] = 2
            THEN drops[c] = prevDrops[c]
            ELSE drops[c] = 0 \/ drops[c] = prevDrops[c] + 1

C1_Witness ==
    /\ lastOp = "frame"
    /\ \E c \in DOMAIN drops :
          prevCell[c] = 2 /\ prevDrops[c] > 0 /\ drops[c] = prevDrops[c]

\* C2: right after a submit or resize whose rasterization succeeded, freezeMap
\* is the target array just built, rows x columns, every cell 0 or 1.
C2_Retarget ==
    (pc = "running" /\ lastOp \in {"submit", "resize"} /\ rasterOk) =>
        /\ freezeMap = target
        /\ DOMAIN freezeMap = 0..(rows - 1)
        /\ \A y \in DOMAIN freezeMap :
              /\ DOMAIN freezeMap[y] = 0..(columns - 1)
              /\ \A x \in DOMAIN freezeMap[y] : freezeMap[y][x] \in {0, 1}

C2_Witness == pc = "running" /\ lastOp = "submit" /\ rasterOk /\ erasedLocks

\* C3 as stated: once initialized, a cell is 1 or 2 exactly when the last
\* target array has 1 there.
C3_Original ==
    pc = "running" =>
        \A y \in DOMAIN freezeMap : \A x \in DOMAIN freezeMap[y] :
            (freezeMap[y][x] \in {1, 2}) <=> (targetAt(y, x) = 1)

\* C3 amended: once initialized, a cell is 1 or 2 only where the last target
\* array has 1; and every cell where it has 1 is 1 or 2, unless the last
\* rasterization failed, when the grid may be all idle.
C3_Amended ==
    pc = "running" =>
        /\ \A y \in DOMAIN freezeMap : \A x \in DOMAIN freezeMap[y] :
              (freezeMap[y][x] \in {1, 2}) => (targetAt(y, x) = 1)
        /\ \/ \A y \in DOMAIN freezeMap : \A x \in DOMAIN freezeMap[y] :
                 (targetAt(y, x) = 1) => (freezeMap[y][x] \in {1, 2})
           \/ /\ ~rasterOk
              /\ \A y \in DOMAIN freezeMap : \A x \in DOMAIN freezeMap[y] :
                    freezeMap[y][x] = 0

C3_Witness ==
    /\ pc = "running" /\ lastOp = "resize" /\ ~rasterOk
    /\ \E y \in DOMAIN freezeMap : \E x \in DOMAIN freezeMap[y] :
          targetAt(y, x) = 1 /\ freezeMap[y][x] = 0

\* C4: a frame changes a cell only from 1 to 2 or from 2 to 1 and leaves the
\* shape of the grid alone; a cell becomes 0 (or a new 0 cell appears) only
\* in initialization, a submit or a resize.
C4_Diffusion ==
    [][ /\ lastOp' = "frame" =>
             /\ DOMAIN freezeMap' = DOMAIN freezeMap
             /\ \A y \in DOMAIN freezeMap :
                   /\ DOMAIN freezeMap'[y] = DOMAIN freezeMap[y]
                   /\ \A x \in DOMAIN freezeMap[y] :
                         \/ freezeMap'[y][x] = freezeMap[y][x]
                         \/ freezeMap[y][x] = 1 /\ freezeMap'[y][x] = 2
                         \/ freezeMap[y][x] = 2 /\ freezeMap'[y][x] = 1
        /\ (freezeMap' # freezeMap /\
            \E y \in DOMAIN freezeMap' : \E x \in DOMAIN freezeMap'[y] :
                /\ freezeMap'[y][x] = 0
                /\ ~(y \in DOMAIN freezeMap /\ x \in DOMAIN freezeMap[y]
                     /\ freezeMap[y][x] = 0))
           => lastOp' \in {"init", "submit", "resize"} ]_vars

C4_Witness ==
    /\ lastOp = "frame"
    /\ \E y \in DOMAIN freezeMap : \E x \in DOMAIN freezeMap[y] :
          freezeMap[y][x] = 2 /\ <<y, x>> \in HotCells

\* C6: once initialized, drops has exactly columns entries and freezeMap
\* exactly rows rows of columns cells, also after a resize that failed to
\* rasterize.
C6_Shapes ==
    pc = "running" =>
        /\ DOMAIN drops = 0..(columns - 1)
        /\ Cardinality(DOMAIN drops) = columns
        /\ DOMAIN freezeMap = 0..(rows - 1)
        /\ \A y \in DOMAIN freezeMap : DOMAIN freezeMap[y] = 0..(columns - 1)

C6_Witness ==
    /\ pc = "running" /\ lastOp = "resize" /\ ~rasterOk
    /\ target # <<>>
    /\ Cardinality(DOMAIN target) # rows

\* C7 as stated: the text a resize rasterizes is the text of the last form
\* submit, the default phrase when nothing was submitted.
C7_Original ==
    (pc = "running" /\ lastOp = "resize") =>
        rasterText = orDefault(submittedText)

\* C8: a cursor that draw() advances (its cell not locked, its early-reset
\* draw not firing) becomes one more than it was while it was at most rows,
\* and 0 once it was more than rows.
C8_Advance ==
    FrameRan =>
        \A c \in DOMAIN drops :
            (prevCell[c] # 2 /\ c \notin earlyDraw) =>
                drops[c] = IF prevDrops[c] > rows THEN 0 ELSE prevDrops[c] + 1

C8_Witness ==
    /\ lastOp = "frame"
    /\ \E c \in DOMAIN drops :
          /\ c \notin earlyDraw /\ prevCell[c] # 2
          /\ prevDrops[c] = rows + 1 /\ drops[c] = 0

\* C10: with the matrix root, canvas, form, input or 2D context missing,
\* initialization declines: no frame is ever scheduled or run, no listener is
\* registered, and grid and cursors stay as declared.
C10_Declines ==
    domIncomplete =>
        /\ pc \in {"load", "declined"}
        /\ rafPending = 0 /\ frames = 0
        /\ ~submitListener /\ ~resizeListener
        /\ columns = 0 /\ rows = 0
        /\ drops = <<>> /\ freezeMap = <<>>
        /\ canvasWidth = 0 /\ canvasHeight = 0
        /\ target = <<>>

C10_Witness ==
    /\ pc = "declined" /\ ~dom.ctx /\ dom.canvas
    /\ lastOp \in {"submit", "resize"}

\* C5 as stated: after resizeCanvas, columns = floor(width / 14) and
\* rows = floor(height / 14) for the surface width and height.
C5_Original ==
    pc = "running" =>
        /\ columns = canvasWidth \div fontSize
        /\ rows = canvasHeight \div fontSize

\* C5 amended: after resizeCanvas, columns = ceil(width / 14) and
\* rows = ceil(height / 14): the least numbers of 14-pixel cells that cover
\* the surface, one more than the floor unless the length is a multiple of 14.
C5_Amended ==
    pc = "running" =>
        /\ canvasWidth >= MinWidth /\ canvasHeight >= MinHeight
        /\ (columns - 1) * fontSize < canvasWidth /\ canvasWidth <= columns * fontSize
        /\ (rows - 1) * fontSize < canvasHeight /\ canvasHeight <= rows * fontSize
        /\ columns = canvasWidth \div fontSize + (IF canvasWidth % fontSize = 0 THEN 0 ELSE 1)
        /\ rows = canvasHeight \div fontSize + (IF canvasHeight % fontSize = 0 THEN 0 ELSE 1)

C5_Witness ==
    /\ pc = "running"
    /\ canvasWidth > MinWidth /\ canvasWidth % fontSize # 0
    /\ canvasHeight > MinHeight /\ canvasHeight % fontSize = 0

\* the lines C9 states for a text: split on line breaks, trailing white space
\* trimmed per line, empty lines dropped, the first 6 kept, else the default
statedLines(text) ==
    LET ls == slice(filterNonEmpty(mapTrimEnd(split(text))), MaxLines)
    IN  IF ls = <<>> THEN <<DefaultPhrase>> ELSE ls

\* the same, with leading white space also trimmed from the first line kept
amendedLines(text) ==
    LET ls  == filterNonEmpty(mapTrimEnd(split(text)))
        ls1 == IF ls = <<>> THEN <<>> ELSE <<trimStart(Head(ls))>> \o Tail(ls)
        out == slice(ls1, MaxLines)
    IN  IF out = <<>> THEN <<DefaultPhrase>> ELSE out

\* C9 as stated: the lines a submit rasterizes are the stated lines of the
\* text in the field.
C9_Original ==
    (pc = "running" /\ lastOp = "submit" /\ rasterOk) =>
        rasterLines = statedLines(inputValue)

\* C9 amended: the lines a submit rasterizes are the stated lines of the text
\* in the field, except that the first line kept also loses its leading white
\* space (the text is trimmed at both ends before it is split).
C9_Amended ==
    (pc = "running" /\ lastOp = "submit" /\ rasterOk) =>
        rasterLines = amendedLines(inputValue)

C9_Witness ==
    /\ pc = "running" /\ lastOp = "submit" /\ rasterOk
    /\ inputValue # <<>> /\ Head(inputValue) = Space
    /\ Len(rasterLines) = MaxLines
    /\ rasterLines # statedLines(inputValue)

\* C11: once initialized, and after every resize, the surface is at least
\* 240 wide and 280 high, whatever the size of the container, and so the grid
\* has at least one column and one row.
C11_Floor ==
    pc = "running" =>
        /\ canvasWidth >= MinWidth /\ canvasHeight >= MinHeight
        /\ canvasWidth >= floorPx(rect.width) /\ canvasHeight >= floorPx(rect.height)
        /\ columns >= 1 /\ rows >= 1

C11_Witness ==
    /\ pc = "running" /\ lastOp = "resize" /\ frames >= 1
    /\ rect.width = 0 /\ rect.height = 0
    /\ canvasWidth = MinWidth /\ canvasHeight = MinHeight

\* C12 as stated: a submit or resize handler calls showStatus once when its
\* rasterization replaced the grid, and not at all when it failed.
C12_Original ==
    (pc = "running" /\ lastOp \in {"submit", "resize"}) =>
        statusCalls = (IF rasterOk THEN 1 ELSE 0)

\* C13: once the animation runs, exactly one frame callback is pending in
\* every state between two handlers (after initialization, a frame, a submit,
\* a resize or an edit of the field); before it runs, or when initialization
\* declined, none is.
C13_OnePending ==
    /\ pc = "running" => rafPending = 1
    /\ pc \in {"load", "declined"} => rafPending = 0

C13_Witness ==
    /\ pc = "running" /\ frames >= 1 /\ events >= 1
    /\ lastOp = "frame" /\ rafPending = 1

\* C14: a submit leaves columns, rows, the surface size, every cursor and the
\* pending frame callback as they were; of the grid model it replaces nothing
\* but freezeMap.
C14_SubmitFrame ==
    [][lastOp' = "submit" =>
           /\ columns' = columns /\ rows' = rows
           /\ canvasWidth' = canvasWidth /\ canvasHeight' = canvasHeight
           /\ drops' = drops
           /\ rafPending' = rafPending /\ pc' = pc
           /\ submitListener' = submitListener /\ resizeListener' = resizeListener]_vars

C14_Witness ==
    /\ pc = "running" /\ lastOp = "submit" /\ rasterOk /\ frames >= 1
    /\ freezeMap = target
    /\ \E c \in DOMAIN drops : drops[c] > 1

\* a handler has just replaced the grid by a new target array
retargeted == pc = "running" /\ lastOp \in {"submit", "resize"} /\ rasterOk

C16_Outside ==
    FrameRan =>
        /\ DOMAIN freezeMap = 0..(rows - 1)
        /\ \A c \in DOMAIN drops :
              prevDrops[c] >= rows =>
                  /\ prevCell[c] = 0
                  /\ drops[c] = IF prevDrops[c] > rows \/ c \in earlyDraw
                                THEN 0 ELSE prevDrops[c] + 1

C16_Witness ==
    /\ lastOp = "frame"
    /\ \E c \in DOMAIN drops :
          prevDrops[c] = rows /\ prevCell[c] = 0 /\ drops[c] = rows + 1

\* C18: once initialized, every cursor is between 0 and rows + 1, also after
\* a resize that made the grid lower than the cursors stood.
C18_CursorRange ==
    pc = "running" =>
        \A c \in DOMAIN drops : 0 <= drops[c] /\ drops[c] <= rows + 1

C18_Witness ==
    /\ pc = "running" /\ lastOp = "resize"
    /\ \E c \in DOMAIN prevDrops : prevDrops[c] > rows + 1
    /\ \A c \in DOMAIN drops : drops[c] < rows

WatchedCells ==
    HotCells \cup {<<gridRows(rc) - 1, gridColumns(rc) - 1>> : rc \in Rects}

\* no cell is locked where the last target array has no 1
lockOnlyTargets ==
    \A y \in DOMAIN freezeMap : \A x \in DOMAIN freezeMap[y] :
        freezeMap[y][x] = 2 => targetAt(y, x) = 1

\* C17 as stated: with the frame loop and the lock draws fair, every cell
\* where the last target array has 1 is, from any state on, eventually locked
\* unless a submit or resize comes first; and no cell is ever locked where
\* that array has no 1.
C17_Original ==
    /\ [](pc = "running" => lockOnlyTargets)
    /\ \A cell \in WatchedCells :
          (pc = "running" /\ targetAt(cell[1], cell[2]) = 1)
              ~> (\/ cellState(freezeMap, cell[1], cell[2]) = 2
                  \/ lastOp \in {"submit", "resize"})

\* C17 amended: the same, for the cells the live grid holds as target cells:
\* every cell where the last target array has 1 is eventually locked unless a
\* submit or resize comes first, except after a resize whose rasterization
\* failed, which leaves the cell idle; no cell is ever locked where that array
\* has no 1.
C17_Amended ==
    /\ [](pc = "running" => lockOnlyTargets)
    /\ \A cell \in WatchedCells :
          (/\ pc = "running" /\ targetAt(cell[1], cell[2]) = 1
           /\ (rasterOk \/ cellState(freezeMap, cell[1], cell[2]) # 0))
              ~> (\/ cellState(freezeMap, cell[1], cell[2]) = 2
                  \/ lastOp \in {"submit", "resize"})

\* no submit or resize can come any more, and every cell of the grid is a
\* target cell that a frame has locked
C17_Witness ==
    /\ pc = "running" /\ lastOp = "frame" /\ events = MaxEvents /\ rasterOk
    /\ \A y \in DOMAIN freezeMap : \A x \in DOMAIN freezeMap[y] :
          targetAt(y, x) = 1 /\ freezeMap[y][x] = 2
====
